---- MODULE Spec2Model ----
(***************************************************************************)
(* A model of src/services/pollinationsProcessor.ts: the chunked           *)
(* request/response pipeline (chunkContent, _getChunkPriorities,           *)
(* processInChunks, runPromisesInBatches, processAndSynthesize).           *)
(* PollinationsService.estimateApiCalls (src/unnamed/part_006) and the     *)
(* run as src/App.tsx drives it (handleSubmit, executePollinationsFlow,    *)
(* handleStop) are modelled in the last sections.                          *)
(*                                                                         *)
(* Strings are sequences of one-character strings.  JavaScript runs a      *)
(* continuation to its next await without interleaving, so every action    *)
(* below is one such run: from a call or a settled promise to the next     *)
(* await, return or throw.  Positions named "loop" or "after..." are       *)
(* synchronous positions: the environment (the user pressing Stop, a       *)
(* network call settling) cannot act there, only the program can.          *)
(***************************************************************************)
EXTENDS Integers, Sequences, FiniteSets, TLC

VARIABLES
    \* ---- inputs of one invocation
    mainContent,          \* mainContent: string
    auxiliaryContext,     \* auxiliaryContext: string
    limits,               \* limits: {doc, aux}
    maxInputCharsOpt,     \* options.maxInputChars (0 stands for absent)
    templateLength,       \* promptTemplate('', '').length + systemPrompt.length
    synthTemplateLength,  \* synthesisPromptTemplate('').length + synthesisSystemPrompt.length
    finalJoinStrategy,    \* 'string-concat' | 'json-array'
    chunkSize,            \* the chunkSize argument of chunkContent
    \* ---- processInChunks
    mainContentChunks, auxContentChunks,
    selectedMainChunks, selectedAuxChunks,
    priorities,           \* the block-scoped `priorities` of lines 117 and 129
    scoringOutcome,       \* how the last relevance-scoring call ended
    scoringCalls,         \* per list: number of relevance-scoring model calls issued
    \* ---- runPromisesInBatches
    promiseFactories,     \* the units, in submission order
    batchSize,
    i,                    \* the loop index (0-based offset of the current wave)
    results,
    completedCount,
    bpc,                  \* "idle" | "loop" | "await" | "resolved" | "rejected"
    inflight,             \* units invoked and not yet settled
    fulfilled,            \* unit -> the value its promise fulfilled with (unit 0 is the
                          \* single synthesis call of line 220)
    settleOrder,          \* the units of the current wave in the order they fulfilled
    invoked,              \* every unit ever invoked
    waves,                \* sizes of the waves dispatched
    rejectedUnits,        \* units whose promise rejected
    \* ---- the invocation as a whole
    pc,
    stage,                \* "processing" | "synthesis"
    total,                \* finalTotalCalls / totalSynthCalls
    isCancelled,          \* isCancelledRef.current
    cancelledAt,          \* position at which the flag became true ("never" if unset)
    progress,             \* the ProgressEvents emitted, in order
    error,                \* the error the call rejected with
    combinedPartialResults,
    synthesisChunks,
    synthCalls,           \* number of synthesis model calls issued
    result,               \* the string the invocation resolved with
    \* ---- src/App.tsx: the component that drives a run
    provider,             \* 'gemini' | 'openrouter' | 'pollinations'
    isProcessing,         \* the isProcessing state
    apiResourceControl,   \* which resource-control dialog is open ("null" if none)
    flow,                 \* where the run's async functions are suspended
    tasks,                \* the status of every task of the plan, in order
    taskIndex,            \* the loop index i of the execution loop
    errorMessage,         \* the error state ("null" if none)
    finalResult,          \* the finalResult state ("null" if none)
    savedHistory          \* api.saveChatHistory was called during the current run

inputVars == <<mainContent, auxiliaryContext, limits, maxInputCharsOpt, templateLength,
               synthTemplateLength, finalJoinStrategy, chunkSize>>
selVars   == <<mainContentChunks, auxContentChunks, selectedMainChunks, selectedAuxChunks,
               priorities, scoringOutcome, scoringCalls>>
batchVars == <<promiseFactories, batchSize, i, results, completedCount, bpc, inflight,
               fulfilled, settleOrder, invoked, waves, rejectedUnits>>
pipeVars  == <<pc, stage, total, isCancelled, cancelledAt, progress, error,
               combinedPartialResults, synthesisChunks, synthCalls, result>>
appVars   == <<provider, isProcessing, apiResourceControl, flow, tasks, taskIndex,
               errorMessage, finalResult, savedHistory>>
vars      == <<inputVars, selVars, batchVars, pipeVars, appVars>>

(***************************************************************************)
(* Bounds of the model.                                                    *)
(***************************************************************************)
MaxUnits == 7       \* units handed to runPromisesInBatches on its own
MaxBatch == 2       \* batchSize handed to runPromisesInBatches on its own
MaxTextLen == 4     \* length of a text handed to chunkContent on its own
MaxChunkSize == 5   \* chunkSize handed to chunkContent on its own
MaxMainLen == 3     \* length of mainContent handed to processInChunks
MaxAuxLen == 2      \* length of auxiliaryContext handed to processInChunks
MaxRecords == 2     \* records in an array a relevance-scoring call answers with that
                    \* is not one record per chunk
MaxPipeLen == 2     \* length of mainContent and auxiliaryContext handed to processAndSynthesize

(***************************************************************************)
(* Program constants.                                                      *)
(***************************************************************************)
DefaultMaxInputChars == 5000
ProcessingBuffer == 200
SynthesisBuffer == 500
NeutralScore == 5
PipelineBatchSize == 1
PreviewChars == 500

(***************************************************************************)
(* Helpers.                                                                *)
(***************************************************************************)
Min(a, b) == IF a <= b THEN a ELSE b
Max(a, b) == IF a >= b THEN a ELSE b

\* String.prototype.substring(from, to): both arguments clamped to 0..length
\* and swapped when from > to; the characters from..to-1 (0-based)
Substring(s, from, to) ==
    LET a == Max(0, Min(from, Len(s)))
        b == Max(0, Min(to, Len(s)))
    IN SubSeq(s, Min(a, b) + 1, Max(a, b))

RECURSIVE Flatten(_)
Flatten(ss) == IF ss = <<>> THEN <<>> ELSE Head(ss) \o Flatten(Tail(ss))

\* Array.prototype.join(sep)
RECURSIVE Join(_, _)
Join(ss, sep) ==
    IF ss = <<>> THEN <<>>
    ELSE IF Len(ss) = 1 THEN ss[1]
    ELSE ss[1] \o sep \o Join(Tail(ss), sep)

NoError == [kind |-> "none", unit |-> 0]
CancelledError == [kind |-> "Process stopped by user.", unit |-> 0]
\* a mutant of UpstreamError: the error of a model call reported as a stop
UpstreamErrorMasked(u) == CancelledError
\* the error a model call rejected with; unit identifies the call
UpstreamError(u) == [kind |-> "upstream", unit |-> u]

(***************************************************************************)
(* chunkContent (processInChunks, lines 99-106).                           *)
(***************************************************************************)
RECURSIVE ChunkLoop(_, _, _, _)
ChunkLoop(content, size, k, chunks) ==
    IF k < Len(content)
    THEN ChunkLoop(content, size, k + size, Append(chunks, Substring(content, k, k + size)))
    ELSE chunks

\* a mutant of chunkContent: the shorter final chunk is left out
chunkContentDropsTail(content, size) ==
    IF content = <<>> THEN << <<>> >>
    ELSE [k \in 1 .. (Len(content) \div size) |-> Substring(content, (k - 1) * size, k * size)]

\* a mutant of chunkContent: an empty text gives no chunk
chunkContentEmptyToNone(content, size) == ChunkLoop(content, size, 0, <<>>)

chunkContent(content, size) ==
    IF content = <<>> THEN << <<>> >> ELSE ChunkLoop(content, size, 0, <<>>)

(***************************************************************************)
(* Values shared by the specifications.                                    *)
(***************************************************************************)
NoValues == [u \in {} |-> <<>>]

\* Strings a model call may answer with, to a unit handed to
\* runPromisesInBatches on its own.
UnitResponses == {<<"x">>, <<"y">>}

\* Positions at which the invocation is suspended on a promise (or not yet
\* called, or over): only there can the user or the network act.
EnvMayAct ==
    /\ bpc # "loop"
    /\ \/ pc \in {"standalone", "start", "prioMain", "prioAux", "synthSingle"}
       \/ pc \in {"processing", "synthesis"} /\ bpc = "await"

\* the call has returned or thrown
Over ==
    \/ pc = "standalone" /\ bpc \in {"resolved", "rejected"}
    \/ pc \in {"resolved", "rejected", "exhausted"}

\* App.tsx handleStop: isCancelledRef.current = true
Cancel ==
    /\ EnvMayAct
    /\ ~isCancelled
    /\ ~Over
    /\ isCancelled' = TRUE
    /\ cancelledAt' = IF pc = "standalone" THEN bpc ELSE pc
    /\ UNCHANGED <<appVars, inputVars, selVars, batchVars>>
    /\ UNCHANGED <<pc, stage, total, progress, error, combinedPartialResults,
                   synthesisChunks, synthCalls, result>>

(***************************************************************************)
(* runPromisesInBatches (lines 15-35).                                     *)
(***************************************************************************)
\* a mutant of Batch: the slice takes one unit too many
BatchOversized == [k \in 1 .. (Min(i + batchSize + 1, Len(promiseFactories)) - i) |-> i + k]

\* promiseFactories.slice(i, i + batchSize), as positions 1..n
Batch == [k \in 1 .. (Min(i + batchSize, Len(promiseFactories)) - i) |-> i + k]

Range(f) == {f[x] : x \in DOMAIN f}

\* the wrappers of lines 157 and 249 around onProgress(completedCount)
OnProgress(completed) ==
    Append(progress, [completed |-> completed, total |-> total, stage |-> stage])

\* a mutant of PromiseAll: the values in the order the promises fulfilled
PromiseAllCompletionOrder(batch, vals, order) == [k \in 1 .. Len(order) |-> vals[order[k]]]

\* what `await Promise.all(batch.map(p => p()))` evaluates to (line 29): the
\* values in the order of the batch, whatever order they fulfilled in
PromiseAll(batch, vals, order) == [k \in 1 .. Len(batch) |-> vals[batch[k]]]

\* a mutant of CompletedAfter: every wave counted as a full one
CompletedAfterFullWave(count, batch) == count + batchSize

\* a mutant of CompletedAfter: the count is set to the size of the wave
CompletedAfterWaveOnly(count, batch) == Len(batch)

\* line 31: completedCount += batch.length
CompletedAfter(count, batch) == count + Len(batch)

\* a mutant of PromiseAllRejects: a rejection does not end the wait
PromiseAllWaitsOn == FALSE

\* Promise.all (line 29) rejects with the first rejection among the promises
\* it still waits for
PromiseAllRejects == bpc = "await"

\* the body of the call up to the loop (lines 21-22)
EnterBatches(factories, size) ==
    /\ promiseFactories' = factories
    /\ batchSize' = size
    /\ i' = 0
    /\ results' = <<>>
    /\ completedCount' = 0
    /\ inflight' = {}
    /\ fulfilled' = NoValues
    /\ settleOrder' = <<>>
    /\ invoked' = {}
    /\ waves' = <<>>
    /\ rejectedUnits' = {}
    /\ bpc' = "loop"

\* a mutant of LoopCancelled: the flag is not consulted at the loop head
LoopIgnoresCancel == FALSE

\* line 24: if (isCancelledRef?.current)
LoopCancelled == isCancelled

\* the loop head (lines 23-29): the loop ends, or the call throws the
\* cancelled error, or the next wave is dispatched and awaited
BatchLoop ==
    /\ bpc = "loop"
    /\ IF i >= Len(promiseFactories)
       THEN /\ bpc' = "resolved"
            /\ UNCHANGED <<inflight, settleOrder, invoked, waves, error, synthCalls>>
       ELSE IF LoopCancelled
       THEN /\ bpc' = "rejected"
            /\ error' = CancelledError
            /\ UNCHANGED <<inflight, settleOrder, invoked, waves, synthCalls>>
       ELSE /\ bpc' = "await"
            /\ inflight' = inflight \cup Range(Batch)
            /\ invoked' = invoked \cup Range(Batch)
            /\ settleOrder' = <<>>
            /\ waves' = Append(waves, Len(Batch))
            \* lines 233-240: a synthesis unit re-reads the flag (false here,
            \* line 24 has just read it) and calls the model
            /\ synthCalls' = IF stage = "synthesis" THEN synthCalls + Len(Batch) ELSE synthCalls
            /\ UNCHANGED error
    /\ UNCHANGED <<promiseFactories, batchSize, i, results, completedCount, fulfilled,
                   rejectedUnits>>
    /\ UNCHANGED <<appVars, inputVars, selVars>>
    /\ UNCHANGED <<pc, stage, total, isCancelled, cancelledAt, progress,
                   combinedPartialResults, synthesisChunks, result>>

\* the promise of unit u fulfils with v; when it is the last of the awaited
\* wave, Promise.all fulfils and lines 30-32 run
UnitFulfil(u, v) ==
    /\ EnvMayAct
    /\ u \in inflight
    /\ inflight' = inflight \ {u}
    /\ LET vals == [x \in DOMAIN fulfilled \cup {u} |-> IF x = u THEN v ELSE fulfilled[x]]
           order == Append(settleOrder, u)
       IN /\ fulfilled' = vals
          /\ settleOrder' = order
          /\ IF bpc = "await" /\ Range(Batch) \subseteq DOMAIN vals
             THEN /\ results' = results \o PromiseAll(Batch, vals, order)
                  /\ completedCount' = CompletedAfter(completedCount, Batch)
                  /\ progress' = OnProgress(CompletedAfter(completedCount, Batch))
                  /\ i' = i + batchSize
                  /\ bpc' = "loop"
             ELSE UNCHANGED <<results, completedCount, progress, i, bpc>>
    /\ UNCHANGED <<promiseFactories, batchSize, invoked, waves, rejectedUnits>>
    /\ UNCHANGED <<appVars, inputVars, selVars>>
    /\ UNCHANGED <<pc, stage, total, isCancelled, cancelledAt, error,
                   combinedPartialResults, synthesisChunks, synthCalls, result>>

\* the promise of unit u rejects: Promise.all rejects with the first
\* rejection of the wave and the call throws it; the other promises of the
\* wave stay in flight and their outcomes are dropped
UnitReject(u) ==
    /\ EnvMayAct
    /\ u \in inflight
    /\ inflight' = inflight \ {u}
    /\ rejectedUnits' = rejectedUnits \cup {u}
    /\ IF PromiseAllRejects
       THEN bpc' = "rejected" /\ error' = UpstreamError(u)
       ELSE UNCHANGED <<bpc, error>>
    /\ UNCHANGED <<promiseFactories, batchSize, i, results, completedCount, fulfilled,
                   settleOrder, invoked, waves>>
    /\ UNCHANGED <<appVars, inputVars, selVars>>
    /\ UNCHANGED <<pc, stage, total, isCancelled, cancelledAt, progress,
                   combinedPartialResults, synthesisChunks, synthCalls, result>>

(***************************************************************************)
(* _getChunkPriorities (lines 41-72).  The answer of the scoring call is   *)
(* modelled by what lines 60-63 make of it: the call rejected, or          *)
(* JSON.parse threw, or the value parsed is no array, or it is an array of *)
(* items, each with the keys it has.                                       *)
(***************************************************************************)
\* "reject", "unparseable", "notArray", or for an array: "valid" when every
\* item has both keys and "badItems" otherwise
Outcome(resp) ==
    IF resp.kind # "array" THEN resp.kind
    ELSE IF \A k \in 1 .. Len(resp.items) : {"chunk_index", "score"} \subseteq resp.items[k].keys
         THEN "valid" ELSE "badItems"

PriorityRecord(index, score) ==
    [chunk_index |-> index, score |-> score, keys |-> {"chunk_index", "score"}]

\* line 63: 'chunk_index' in item && 'score' in item
WellFormed(item) == {"chunk_index", "score"} \subseteq item.keys

\* line 70: chunks.map((_, index) => ({ chunk_index: index, score: 5 }))
NeutralPriorities(chunks) == [k \in 1 .. Len(chunks) |-> PriorityRecord(k - 1, NeutralScore)]

\* a mutant of GetChunkPriorities: no fallback list when the answer is unusable
GetChunkPrioritiesNoFallback(chunks, resp) ==
    IF resp.kind = "array" /\ \A k \in 1 .. Len(resp.items) : WellFormed(resp.items[k])
    THEN resp.items
    ELSE <<>>

\* lines 58-71: the parsed array when it is an array of items having both
\* keys, the neutral list otherwise
GetChunkPriorities(chunks, resp) ==
    IF resp.kind = "array" /\ \A k \in 1 .. Len(resp.items) : WellFormed(resp.items[k])
    THEN resp.items
    ELSE NeutralPriorities(chunks)

(***************************************************************************)
(* processInChunks (lines 80-162).                                         *)
(***************************************************************************)
\* options.maxInputChars || 5000 (lines 92 and 209)
MaxInputChars == IF maxInputCharsOpt = 0 THEN DefaultMaxInputChars ELSE maxInputCharsOpt

\* lines 93-97: Math.max(1, Math.floor(availableChars / 2))
AvailableChars == MaxInputChars - templateLength - ProcessingBuffer
MainChunkSize == Max(1, AvailableChars \div 2)
AuxChunkSize == Max(1, AvailableChars \div 2)

\* line 49: chunk.substring(0, 500), the part of a chunk shown to the scoring model
Preview(chunk) == Substring(chunk, 0, PreviewChars)

\* a mutant of SortByScore: the records are left in the order of the answer
SortByScoreKeepsOrder(ps) == ps

\* Array.prototype.sort((a, b) => b.score - a.score): descending by score,
\* records of equal score keeping their order (the sort is stable)
RECURSIVE InsertByScore(_, _)
InsertByScore(sorted, p) ==
    IF sorted = <<>> THEN <<p>>
    ELSE IF Head(sorted).score >= p.score
         THEN <<Head(sorted)>> \o InsertByScore(Tail(sorted), p)
         ELSE <<p>> \o sorted

RECURSIVE SortByScore(_)
SortByScore(ps) ==
    IF ps = <<>> THEN <<>>
    ELSE InsertByScore(SortByScore(SubSeq(ps, 1, Len(ps) - 1)), ps[Len(ps)])

\* what indexing an array outside its bounds evaluates to
Undefined == <<"undefined">>

\* chunks[p.chunk_index]
ChunkAt(chunks, index) ==
    IF index \in 0 .. Len(chunks) - 1 THEN chunks[index + 1] ELSE Undefined

\* lines 118-121 and 130-133, on the sorted list:
\* .slice(0, limit).map(p => chunks[p.chunk_index])
SelectChunks(chunks, sorted, limit) ==
    [k \in 1 .. Min(limit, Len(sorted)) |-> ChunkAt(chunks, sorted[k].chunk_index)]

\* a mutant of NeedsPrioritizing: a limit equal to the number of chunks counts
NeedsPrioritizingAtLimit(limit, chunks) == limit > 0 /\ limit <= Len(chunks)

\* lines 115 and 125: limit > 0 && limit < chunks.length
NeedsPrioritizing(limit, chunks) == limit > 0 /\ limit < Len(chunks)

\* lines 142-152: for each main chunk, for each auxiliary chunk, one unit
RECURSIVE InnerLoop(_, _, _)
InnerLoop(mainChunk, auxChunks, factories) ==
    IF auxChunks = <<>> THEN factories
    ELSE InnerLoop(mainChunk, Tail(auxChunks),
                   Append(factories, [mainChunk |-> mainChunk, auxChunk |-> Head(auxChunks)]))

\* a mutant of OuterLoop: the auxiliary chunks in the outer loop
OuterLoopAuxMajor(mainChunks, auxChunks, factories) ==
    factories \o [k \in 1 .. Len(mainChunks) * Len(auxChunks) |->
                    [mainChunk |-> mainChunks[((k - 1) % Len(mainChunks)) + 1],
                     auxChunk |-> auxChunks[((k - 1) \div Len(mainChunks)) + 1]]]

RECURSIVE OuterLoop(_, _, _)
OuterLoop(mainChunks, auxChunks, factories) ==
    IF mainChunks = <<>> THEN factories
    ELSE OuterLoop(Tail(mainChunks), auxChunks, InnerLoop(Head(mainChunks), auxChunks, factories))

\* lines 136-159: the total is announced, the units are built and handed to
\* runPromisesInBatches
Dispatch(selMain, selAux) ==
    /\ selectedMainChunks' = selMain
    /\ selectedAuxChunks' = selAux
    /\ total' = Len(selMain) * Len(selAux)
    /\ stage' = "processing"
    /\ progress' = Append(progress, [completed |-> 0, total |-> Len(selMain) * Len(selAux),
                                     stage |-> "processing"])
    /\ EnterBatches(OuterLoop(selMain, selAux, <<>>), PipelineBatchSize)
    /\ pc' = "processing"

\* lines 124-134 onwards, once the main chunks are selected: the auxiliary
\* chunks are prioritized when their limit asks for it
AfterMainSelection(mainChunks, auxChunks, selMain) ==
    IF NeedsPrioritizing(limits.aux, auxChunks)
    THEN /\ scoringCalls' = [scoringCalls EXCEPT !.aux = @ + 1]
         /\ selectedMainChunks' = selMain
         /\ selectedAuxChunks' = auxChunks
         /\ pc' = "prioAux"
         /\ UNCHANGED <<batchVars, total, stage, progress>>
    ELSE /\ Dispatch(selMain, auxChunks)
         /\ UNCHANGED scoringCalls

\* the call of processInChunks, to its first await (lines 92-117)
processInChunks ==
    /\ pc = "start"
    /\ LET mainChunks == chunkContent(mainContent, MainChunkSize)
           auxChunks == chunkContent(auxiliaryContext, AuxChunkSize)
       IN /\ mainContentChunks' = mainChunks
          /\ auxContentChunks' = auxChunks
          /\ IF NeedsPrioritizing(limits.doc, mainChunks)
             THEN /\ scoringCalls' = [scoringCalls EXCEPT !.doc = @ + 1]
                  /\ selectedMainChunks' = mainChunks
                  /\ selectedAuxChunks' = auxChunks
                  /\ pc' = "prioMain"
                  /\ UNCHANGED <<batchVars, total, stage, progress>>
             ELSE AfterMainSelection(mainChunks, auxChunks, mainChunks)
    /\ UNCHANGED <<appVars, inputVars, priorities, scoringOutcome>>
    /\ UNCHANGED <<isCancelled, cancelledAt, error, combinedPartialResults,
                   synthesisChunks, synthCalls, result>>

\* the scoring call for the main chunks settles and _getChunkPriorities
\* returns (line 117)
MainPrioritiesSettle(resp) ==
    /\ pc = "prioMain"
    /\ priorities' = GetChunkPriorities(selectedMainChunks, resp)
    /\ scoringOutcome' = Outcome(resp)
    /\ pc' = "selectMain"
    /\ UNCHANGED <<appVars, inputVars, batchVars>>
    /\ UNCHANGED <<mainContentChunks, auxContentChunks, selectedMainChunks,
                   selectedAuxChunks, scoringCalls>>
    /\ UNCHANGED <<stage, total, isCancelled, cancelledAt, progress, error,
                   combinedPartialResults, synthesisChunks, synthCalls, result>>

\* lines 118-122, and on to the auxiliary chunks
SelectMain ==
    /\ pc = "selectMain"
    /\ priorities' = <<>>
    /\ AfterMainSelection(mainContentChunks, auxContentChunks,
                          SelectChunks(mainContentChunks, SortByScore(priorities), limits.doc))
    /\ UNCHANGED <<appVars, inputVars, mainContentChunks, auxContentChunks, scoringOutcome>>
    /\ UNCHANGED <<isCancelled, cancelledAt, error, combinedPartialResults,
                   synthesisChunks, synthCalls, result>>

\* the scoring call for the auxiliary chunks settles and _getChunkPriorities
\* returns (line 129)
AuxPrioritiesSettle(resp) ==
    /\ pc = "prioAux"
    /\ priorities' = GetChunkPriorities(selectedAuxChunks, resp)
    /\ scoringOutcome' = Outcome(resp)
    /\ pc' = "selectAux"
    /\ UNCHANGED <<appVars, inputVars, batchVars>>
    /\ UNCHANGED <<mainContentChunks, auxContentChunks, selectedMainChunks,
                   selectedAuxChunks, scoringCalls>>
    /\ UNCHANGED <<stage, total, isCancelled, cancelledAt, progress, error,
                   combinedPartialResults, synthesisChunks, synthCalls, result>>

\* lines 130-134, and on to the dispatch
SelectAux ==
    /\ pc = "selectAux"
    /\ priorities' = <<>>
    /\ Dispatch(selectedMainChunks,
                SelectChunks(auxContentChunks, SortByScore(priorities), limits.aux))
    /\ UNCHANGED <<appVars, inputVars, mainContentChunks, auxContentChunks, scoringOutcome,
                   scoringCalls>>
    /\ UNCHANGED <<isCancelled, cancelledAt, error, combinedPartialResults,
                   synthesisChunks, synthCalls, result>>

(***************************************************************************)
(* processAndSynthesize (lines 170-276).                                   *)
(***************************************************************************)
Whitespace == {" ", "\n", "\t"}

\* a mutant of NonBlank: only the empty string is dropped
NonBlankUntrimmed(r) == r # <<>>

\* line 202: r && r.trim()
NonBlank(r) == \E k \in 1 .. Len(r) : r[k] \notin Whitespace

Separator == <<"\n", "\n", "-", "-", "-", "\n", "\n">>

\* line 202: partialResults.filter(r => r && r.trim()).join('\n\n---\n\n')
CombinePartialResults(partialResults) ==
    Join(SelectSeq(partialResults, NonBlank), Separator)

\* lines 209-211
AvailableCharsForSynth == MaxInputChars - synthTemplateLength - SynthesisBuffer

\* line 213: combinedPartialResults.length <= availableCharsForSynth
FitsSingleCall(combined) == Len(combined) <= AvailableCharsForSynth

\* a batch of the invocation threw: the invocation rejects with that error
\* (the awaits of lines 154, 187 and 246 rethrow)
Propagate ==
    /\ pc \in {"processing", "synthesis"}
    /\ bpc = "rejected"
    /\ pc' = "rejected"
    /\ UNCHANGED <<appVars, inputVars, selVars, batchVars>>
    /\ UNCHANGED <<stage, total, isCancelled, cancelledAt, progress, error,
                   combinedPartialResults, synthesisChunks, synthCalls, result>>

\* processInChunks returned (lines 161, 187): lines 200-226, to the single
\* synthesis call or to the loop that chunks the joined text
AfterProcessing ==
    /\ pc = "processing"
    /\ bpc = "resolved"
    /\ IF isCancelled
       THEN /\ pc' = "rejected"
            /\ error' = CancelledError
            /\ UNCHANGED <<stage, total, progress, combinedPartialResults, synthCalls,
                           result, i, synthesisChunks>>
       ELSE LET combined == CombinePartialResults(results)
            IN /\ combinedPartialResults' = combined
               /\ IF combined = <<>>
                  THEN /\ pc' = "resolved"
                       /\ result' = <<>>
                       /\ UNCHANGED <<stage, total, progress, synthCalls, i, synthesisChunks>>
                  ELSE IF FitsSingleCall(combined)
                  THEN /\ stage' = "synthesis"
                       /\ total' = 1
                       /\ progress' = Append(progress, [completed |-> 0, total |-> 1,
                                                        stage |-> "synthesis"])
                       /\ synthCalls' = synthCalls + 1
                       /\ pc' = "synthSingle"
                       /\ UNCHANGED <<result, i, synthesisChunks>>
                  ELSE /\ stage' = "synthesis"
                       /\ synthesisChunks' = <<>>
                       /\ i' = 0
                       /\ pc' = "rechunk"
                       /\ UNCHANGED <<total, progress, synthCalls, result>>
               /\ UNCHANGED error
    /\ UNCHANGED <<appVars, inputVars, selVars>>
    /\ UNCHANGED <<promiseFactories, batchSize, results, completedCount, bpc, inflight,
                   fulfilled, settleOrder, invoked, waves, rejectedUnits>>
    /\ UNCHANGED <<isCancelled, cancelledAt>>

\* the single synthesis call fulfils (lines 220-222)
SynthSingleFulfil(v) ==
    /\ pc = "synthSingle"
    /\ progress' = Append(progress, [completed |-> 1, total |-> 1, stage |-> "synthesis"])
    /\ result' = v
    /\ fulfilled' = [u \in {0} |-> v]
    /\ pc' = "resolved"
    /\ UNCHANGED <<appVars, inputVars, selVars>>
    /\ UNCHANGED <<promiseFactories, batchSize, i, results, completedCount, bpc, inflight,
                   settleOrder, invoked, waves, rejectedUnits>>
    /\ UNCHANGED <<stage, total, isCancelled, cancelledAt, error, combinedPartialResults,
                   synthesisChunks, synthCalls>>

\* the single synthesis call rejects (line 220)
SynthSingleReject ==
    /\ pc = "synthSingle"
    /\ error' = UpstreamError(0)
    /\ pc' = "rejected"
    /\ UNCHANGED <<appVars, inputVars, selVars, batchVars>>
    /\ UNCHANGED <<stage, total, isCancelled, cancelledAt, progress, combinedPartialResults,
                   synthesisChunks, synthCalls, result>>

\* one pass of the loop of lines 228-230 (its `i` is the variable i here), or
\* its exit to lines 232-251.  With availableCharsForSynth <= 0 the index never
\* advances and the loop never ends; a loop that has pushed as many chunks as
\* the text has characters and is still short of the end is such a loop, and
\* the invocation is then "exhausted": it neither resolves nor rejects.
Rechunk ==
    /\ pc = "rechunk"
    /\ IF i < Len(combinedPartialResults)
       THEN /\ IF Len(synthesisChunks) >= Len(combinedPartialResults)
               THEN /\ pc' = "exhausted"
                    /\ UNCHANGED <<synthesisChunks, i>>
               ELSE /\ synthesisChunks' =
                         Append(synthesisChunks,
                                Substring(combinedPartialResults, i, i + AvailableCharsForSynth))
                    /\ i' = i + AvailableCharsForSynth
                    /\ UNCHANGED pc
            /\ UNCHANGED <<promiseFactories, batchSize, results, completedCount, bpc,
                           inflight, fulfilled, settleOrder, invoked, waves, rejectedUnits>>
            /\ UNCHANGED <<total, progress>>
       ELSE /\ total' = Len(synthesisChunks)
            /\ progress' = Append(progress, [completed |-> 0, total |-> Len(synthesisChunks),
                                             stage |-> "synthesis"])
            /\ EnterBatches(synthesisChunks, PipelineBatchSize)
            /\ pc' = "synthesis"
            /\ UNCHANGED synthesisChunks
    /\ UNCHANGED <<appVars, inputVars, selVars>>
    /\ UNCHANGED <<stage, isCancelled, cancelledAt, error, combinedPartialResults,
                   synthCalls, result>>

(***************************************************************************)
(* The final join (lines 253-275).  The JSON texts of the model are a      *)
(* digit (a number) and an array of digits, with any whitespace between    *)
(* the tokens; every other text makes JSON.parse throw.                    *)
(***************************************************************************)
Digits == {"0", "1", "2", "3", "4", "5", "6", "7", "8", "9"}

\* the grave accent (U+0060), which a TLA+ string cannot hold
Grave == "grave"

FenceOpen == <<Grave, Grave, Grave, "j", "s", "o", "n">>
FenceClose == <<Grave, Grave, Grave>>

StartsAt(s, pat, p) == p + Len(pat) - 1 <= Len(s) /\ SubSeq(s, p, p + Len(pat) - 1) = pat

\* the first position >= from at which pat occurs in s, 0 when there is none
FirstAt(s, pat, from) ==
    LET hits == {p \in from .. Len(s) : StartsAt(s, pat, p)}
    IN IF hits = {} THEN 0 ELSE CHOOSE p \in hits : \A q \in hits : p <= q

\* part.replace(fence, '$1') (lines 61 and 258), the fence being three grave
\* accents and json, an optional newline, as few characters as possible, an
\* optional newline and three grave accents: the first fenced block is
\* replaced by what it encloses, less one newline at either end
StripFence(s) ==
    LET p == FirstAt(s, FenceOpen, 1)
        a == p + Len(FenceOpen)
        start == IF a <= Len(s) /\ s[a] = "\n" THEN a + 1 ELSE a
        q == FirstAt(s, FenceClose, start)
        groupEnd == IF q - 1 >= start /\ s[q - 1] = "\n" THEN q - 2 ELSE q - 1
    IN IF p = 0 \/ q = 0 THEN s
       ELSE SubSeq(s, 1, p - 1) \o SubSeq(s, start, groupEnd)
                \o SubSeq(s, q + Len(FenceClose), Len(s))

\* String.prototype.trim
RECURSIVE TrimStart(_)
TrimStart(s) == IF s # <<>> /\ Head(s) \in Whitespace THEN TrimStart(Tail(s)) ELSE s

RECURSIVE TrimEnd(_)
TrimEnd(s) ==
    IF s # <<>> /\ s[Len(s)] \in Whitespace THEN TrimEnd(SubSeq(s, 1, Len(s) - 1)) ELSE s

Trim(s) == TrimStart(TrimEnd(s))

IsVisible(c) == c \notin Whitespace

\* JSON.parse (line 260): ok is FALSE when it throws; for an array, elems are
\* its elements in order
JsonParse(s) ==
    LET t == SelectSeq(s, IsVisible)
        inner == SubSeq(t, 2, Len(t) - 1)
    IN IF Len(t) = 1 /\ t[1] \in Digits
       THEN [ok |-> TRUE, isArray |-> FALSE, elems |-> <<>>]
       ELSE IF /\ Len(t) >= 2 /\ t[1] = "[" /\ t[Len(t)] = "]"
               /\ \/ inner = <<>>
                  \/ /\ Len(inner) % 2 = 1
                     /\ \A k \in 1 .. Len(inner) :
                          IF k % 2 = 1 THEN inner[k] \in Digits ELSE inner[k] = ","
       THEN [ok |-> TRUE, isArray |-> TRUE,
             elems |-> [k \in 1 .. (Len(inner) + 1) \div 2 |-> inner[2 * k - 1]]]
       ELSE [ok |-> FALSE, isArray |-> FALSE, elems |-> <<>>]

\* a mutant of JsonStringify: the elements in reverse order
JsonStringifyReversed(elems) ==
    IF elems = <<>> THEN <<"[", "]">>
    ELSE <<"[", "\n">>
         \o Join([k \in 1 .. Len(elems) |-> <<" ", " ", elems[Len(elems) + 1 - k]>>], <<",", "\n">>)
         \o <<"\n", "]">>

\* JSON.stringify(combinedArray, null, 2) (line 266): one element a line,
\* indented by two spaces
JsonStringify(elems) ==
    IF elems = <<>> THEN <<"[", "]">>
    ELSE <<"[", "\n">>
         \o Join([k \in 1 .. Len(elems) |-> <<" ", " ", elems[k]>>], <<",", "\n">>)
         \o <<"\n", "]">>

\* line 258
CleanPart(part) == Trim(StripFence(part))

\* lines 256-265: the forEach over the parts; threw is TRUE when JSON.parse
\* threw on a part
RECURSIVE MergeParts(_, _)
MergeParts(parts, combinedArray) ==
    IF parts = <<>> THEN [threw |-> FALSE, elems |-> combinedArray]
    ELSE LET cleanPart == CleanPart(Head(parts))
             parsedPart == JsonParse(cleanPart)
         IN IF cleanPart = <<>> THEN MergeParts(Tail(parts), combinedArray)
            ELSE IF ~parsedPart.ok THEN [threw |-> TRUE, elems |-> combinedArray]
            ELSE IF parsedPart.isArray
                 THEN MergeParts(Tail(parts), combinedArray \o parsedPart.elems)
                 ELSE MergeParts(Tail(parts), combinedArray)

PartSeparator == <<"\n", "\n">>

\* a mutant of ConcatJoin: the parts run together
ConcatJoinNoSeparator(parts) == Flatten(parts)

\* finalSynthesizedParts.join('\n\n') (lines 270 and 275)
ConcatJoin(parts) == Join(parts, PartSeparator)

\* a mutant of MergeFallback: what was merged before the failure is returned
MergeFallbackPartial(parts) == JsonStringify(MergeParts(parts, <<>>).elems)

\* lines 267-271: the catch of the merge
MergeFallback(parts) == ConcatJoin(parts)

\* lines 253-275
FinalJoin(parts, strategy) ==
    IF Len(parts) > 1 /\ strategy = "json-array"
    THEN IF MergeParts(parts, <<>>).threw
         THEN MergeFallback(parts)
         ELSE JsonStringify(MergeParts(parts, <<>>).elems)
    ELSE ConcatJoin(parts)

\* the synthesis batch returned (line 246): lines 253-275
AfterSynthesis ==
    /\ pc = "synthesis"
    /\ bpc = "resolved"
    /\ result' = FinalJoin(results, finalJoinStrategy)
    /\ pc' = "resolved"
    /\ UNCHANGED <<appVars, inputVars, selVars, batchVars>>
    /\ UNCHANGED <<stage, total, isCancelled, cancelledAt, progress, error,
                   combinedPartialResults, synthesisChunks, synthCalls>>

(***************************************************************************)
(* Values of the variables a specification does not use.                   *)
(***************************************************************************)
IdleInputs ==
    /\ mainContent = <<>> /\ auxiliaryContext = <<>>
    /\ limits = [doc |-> 0, aux |-> 0]
    /\ maxInputCharsOpt = 0 /\ templateLength = 0 /\ synthTemplateLength = 0
    /\ finalJoinStrategy = "string-concat"
    /\ chunkSize = 1

IdleSelection ==
    /\ mainContentChunks = <<>> /\ auxContentChunks = <<>>
    /\ selectedMainChunks = <<>> /\ selectedAuxChunks = <<>>
    /\ priorities = <<>>
    /\ scoringOutcome = "none"
    /\ scoringCalls = [doc |-> 0, aux |-> 0]

IdleBatch ==
    /\ promiseFactories = <<>> /\ batchSize = 1 /\ i = 0 /\ results = <<>>
    /\ completedCount = 0 /\ bpc = "idle" /\ inflight = {} /\ fulfilled = NoValues
    /\ settleOrder = <<>> /\ invoked = {} /\ waves = <<>> /\ rejectedUnits = {}

IdlePipe ==
    /\ stage = "processing" /\ total = 0 /\ isCancelled = FALSE /\ cancelledAt = "never"
    /\ progress = <<>> /\ error = NoError /\ combinedPartialResults = <<>>
    /\ synthesisChunks = <<>> /\ synthCalls = 0 /\ result = <<>>

\* src/App.tsx before any run: the useState and useRef initial values
IdleApp ==
    /\ provider = "gemini" /\ isProcessing = FALSE /\ apiResourceControl = "null"
    /\ flow = "idle" /\ tasks = <<>> /\ taskIndex = 0
    /\ errorMessage = "null" /\ finalResult = "null" /\ savedHistory = FALSE

(***************************************************************************)
(* SpecBatch: runPromisesInBatches on its own, for every number of units   *)
(* up to MaxUnits and every batchSize up to MaxBatch.                      *)
(***************************************************************************)
InitBatch ==
    /\ IdleInputs /\ IdleSelection /\ IdlePipe /\ IdleApp
    /\ pc = "standalone"
    /\ \E n \in 0 .. MaxUnits : promiseFactories = [k \in 1 .. n |-> k]
    /\ batchSize \in 1 .. MaxBatch
    /\ i = 0 /\ results = <<>> /\ completedCount = 0 /\ bpc = "idle"
    /\ inflight = {} /\ fulfilled = NoValues /\ settleOrder = <<>>
    /\ invoked = {} /\ waves = <<>> /\ rejectedUnits = {}

\* the call itself, with onProgress reporting against the number of units
runPromisesInBatches ==
    /\ pc = "standalone"
    /\ bpc = "idle"
    /\ EnterBatches(promiseFactories, batchSize)
    /\ total' = Len(promiseFactories)
    /\ UNCHANGED <<appVars, inputVars, selVars>>
    /\ UNCHANGED <<pc, stage, isCancelled, cancelledAt, progress, error,
                   combinedPartialResults, synthesisChunks, synthCalls, result>>

NextBatch ==
    \/ runPromisesInBatches
    \/ BatchLoop
    \/ \E u \in inflight, v \in UnitResponses : UnitFulfil(u, v)
    \/ \E u \in inflight : UnitReject(u)
    \/ Cancel

SpecBatch == InitBatch /\ [][NextBatch]_vars

(***************************************************************************)
(* Claims about runPromisesInBatches, checked under SpecBatch.             *)
(***************************************************************************)
CeilDiv(a, b) == (a + b - 1) \div b

NumUnits == Len(promiseFactories)

CompletedValues == [k \in 1 .. Len(progress) |-> progress[k].completed]

\* C2: when the flag is set as a wave is about to start, the call rejects with
\* the cancelled error and invokes no unit of that wave or of a later one; it
\* has then invoked exactly the units of the waves already completed, and with
\* 7 units, batchSize 2 and the flag set after wave 2 that is at most 4 units.
C2_CancelStopsDispatch ==
    /\ [](pc = "standalone" /\ bpc = "rejected" /\ error = CancelledError
            => /\ invoked = 1 .. i
               /\ inflight = {}
               /\ (NumUnits = 7 /\ batchSize = 2 /\ Len(waves) = 2
                     => Cardinality(invoked) <= 4))
    /\ [][bpc = "loop" /\ i < NumUnits /\ isCancelled
            => bpc' = "rejected" /\ error' = CancelledError /\ invoked' = invoked]_vars
    /\ [][bpc = "rejected" => bpc' = "rejected" /\ invoked' = invoked]_vars

\* 7 units, batchSize 2, the flag set while wave 2 was awaited: rejected at the
\* head of wave 3 with 4 units invoked
C2_Witness ==
    /\ pc = "standalone" /\ bpc = "rejected" /\ error = CancelledError
    /\ NumUnits = 7 /\ batchSize = 2 /\ Len(waves) = 2 /\ completedCount = 4
    /\ cancelledAt = "await" /\ Cardinality(invoked) = 4

\* C3: with no failure and no cancellation, wave k has batchSize units except a
\* shorter last one, onProgress is called once after each wave with the
\* cumulative count, and at the end ceil(n / batchSize) waves were dispatched
\* and the last count is n; for n = 7 and batchSize 2 the waves are 2,2,2,1 and
\* the counts 2,4,6,7.
C3_WavesAndProgress ==
    pc = "standalone" /\ rejectedUnits = {} /\ ~isCancelled
    => /\ \A k \in 1 .. Len(waves) :
            waves[k] = Min(batchSize, NumUnits - (k - 1) * batchSize)
       /\ Len(progress) = IF bpc = "await" THEN Len(waves) - 1 ELSE Len(waves)
       /\ \A k \in 1 .. Len(progress) :
            progress[k].completed = Min(k * batchSize, NumUnits)
       /\ bpc = "resolved"
            => /\ Len(waves) = CeilDiv(NumUnits, batchSize)
               /\ NumUnits > 0 => progress[Len(progress)].completed = NumUnits
               /\ NumUnits = 7 /\ batchSize = 2
                    => waves = <<2, 2, 2, 1>> /\ CompletedValues = <<2, 4, 6, 7>>

\* 7 units in waves of 2 ran to the end
C3_Witness ==
    /\ pc = "standalone" /\ bpc = "resolved" /\ rejectedUnits = {} /\ ~isCancelled
    /\ NumUnits = 7 /\ batchSize = 2 /\ Len(progress) = 4

\* C4: the results have one element per completed unit, the k-th being the
\* value of the k-th unit, whatever the order in which the units of a wave
\* fulfilled; a call that resolves returns one element per unit.
C4_ResultsInInputOrder ==
    pc = "standalone"
    => /\ Len(results) = completedCount
       /\ \A k \in 1 .. Len(results) : k \in DOMAIN fulfilled /\ results[k] = fulfilled[k]
       /\ bpc = "resolved" => Len(results) = NumUnits

\* a call resolved whose last wave fulfilled in reverse order, with different values
C4_Witness ==
    /\ pc = "standalone" /\ bpc = "resolved" /\ NumUnits >= 2 /\ batchSize = 2
    /\ settleOrder = <<NumUnits, NumUnits - 1>>
    /\ fulfilled[NumUnits] # fulfilled[NumUnits - 1]

\* C5 as stated: whenever the promise of a unit has rejected, the call has
\* rejected with the error of that unit.
C5_AnyRejectionIsTheError ==
    pc = "standalone"
    => \A u \in rejectedUnits : bpc = "rejected" /\ error = UpstreamError(u)

\* C5, amended: the call rejects with the error of the first unit to reject (a
\* later rejection in the same wave changes nothing); no unit of a later wave
\* is started, no progress event is emitted for the failed wave, and the call
\* never resolves.
C5_FirstRejectionPropagates ==
    /\ [](pc = "standalone" /\ rejectedUnits # {}
            => /\ bpc = "rejected"
               /\ error.kind = "upstream" /\ error.unit \in rejectedUnits
               /\ invoked = 1 .. Min(i + batchSize, NumUnits)
               /\ Len(progress) = Len(waves) - 1
               /\ \A k \in 1 .. Len(progress) : progress[k].completed <= i)
    /\ [][rejectedUnits = {} /\ rejectedUnits' # {}
            => \E u \in invoked : rejectedUnits' = {u} /\ error' = UpstreamError(u)]_vars
    /\ [][rejectedUnits # {}
            => UNCHANGED <<bpc, error, invoked, waves, progress, results>>]_vars

\* a unit of the second wave rejected while another of that wave was in flight
C5_Witness ==
    /\ pc = "standalone" /\ bpc = "rejected" /\ error.kind = "upstream"
    /\ batchSize = 2 /\ i = 2 /\ Len(progress) = 1 /\ inflight # {}

\* C23: no unit of a wave is started before every unit of the wave before it
\* has settled: at most batchSize units are in flight, all of the current
\* wave, and units are only started when none is in flight; this also when a
\* unit of the wave rejects while others are pending (no wave follows then).
C23_WavesNeverOverlap ==
    /\ [](pc = "standalone"
            => /\ Cardinality(inflight) <= batchSize
               /\ inflight \subseteq (i + 1) .. (i + batchSize)
               /\ bpc \in {"idle", "loop", "resolved"} => inflight = {})
    /\ [][invoked' # invoked
            => inflight = {} /\ inflight' = invoked' \ invoked /\ rejectedUnits = {}]_vars

\* unit 5 of the third wave rejected while unit 6 was pending: units 1..6
\* were started, unit 7 never is
C23_Witness ==
    /\ pc = "standalone" /\ bpc = "rejected" /\ NumUnits = 7 /\ batchSize = 2
    /\ rejectedUnits = {5} /\ inflight = {6} /\ invoked = 1 .. 6

(***************************************************************************)
(* SpecChunk: chunkContent on its own, for every text over Alphabet up to  *)
(* MaxTextLen characters and every chunkSize from 1 to MaxChunkSize.       *)
(***************************************************************************)
Alphabet == {"a", "b"}

Texts(alphabet, n) == UNION {[1 .. k -> alphabet] : k \in 0 .. n}

InitChunk ==
    /\ IdleSelection /\ IdleBatch /\ IdlePipe /\ IdleApp
    /\ pc = "chunkStart"
    /\ mainContent \in Texts(Alphabet, MaxTextLen)
    /\ chunkSize \in 1 .. MaxChunkSize
    /\ auxiliaryContext = <<>> /\ limits = [doc |-> 0, aux |-> 0]
    /\ maxInputCharsOpt = 0 /\ templateLength = 0 /\ synthTemplateLength = 0
    /\ finalJoinStrategy = "string-concat"

\* chunkContent(mainContent, chunkSize)
Partition ==
    /\ pc = "chunkStart"
    /\ mainContentChunks' = chunkContent(mainContent, chunkSize)
    /\ pc' = "chunked"
    /\ UNCHANGED <<appVars, inputVars, batchVars>>
    /\ UNCHANGED <<auxContentChunks, selectedMainChunks, selectedAuxChunks, priorities,
                   scoringOutcome, scoringCalls>>
    /\ UNCHANGED <<stage, total, isCancelled, cancelledAt, progress, error,
                   combinedPartialResults, synthesisChunks, synthCalls, result>>

NextChunk == Partition

SpecChunk == InitChunk /\ [][NextChunk]_vars

\* C6: for a non-empty text and a chunk size s >= 1, chunk k is the slice of
\* the text from offset (k-1)*s to k*s (contiguous, non-overlapping, in order),
\* each chunk has between 1 and s characters and all but the last exactly s,
\* and the chunks concatenated are the text.
C6_PartitionRoundTrip ==
    pc = "chunked" /\ mainContent # <<>>
    => /\ Flatten(mainContentChunks) = mainContent
       /\ \A k \in 1 .. Len(mainContentChunks) :
            /\ mainContentChunks[k] =
                 SubSeq(mainContent, (k - 1) * chunkSize + 1, Min(k * chunkSize, Len(mainContent)))
            /\ Len(mainContentChunks[k]) \in 1 .. chunkSize
            /\ k < Len(mainContentChunks) => Len(mainContentChunks[k]) = chunkSize

\* a text of 4 characters cut into chunks of 3 and 1
C6_Witness ==
    /\ pc = "chunked" /\ Len(mainContent) = 4 /\ chunkSize = 3
    /\ Len(mainContentChunks) = 2 /\ Len(mainContentChunks[2]) = 1

(***************************************************************************)
(* SpecSelect: processInChunks from its call to the dispatch of the units, *)
(* for every answer of the relevance-scoring calls.                        *)
(***************************************************************************)
Sample == <<"a", "b", "c", "d", "e", "f", "g", "h">>

\* options.maxInputChars and the template length, leaving 2001, 2, 1, 1
\* (clamped) and 1 (clamped, the template one short of maxInputChars)
\* characters per chunk
Budgets == {[max |-> 0, tmpl |-> 798], [max |-> 1000, tmpl |-> 796],
            [max |-> 1000, tmpl |-> 798], [max |-> 1000, tmpl |-> 900],
            [max |-> 1000, tmpl |-> 999]}

Scores == {1, 10}

\* a text of two chunks, each one character longer than the preview of line 49,
\* and the template length that makes chunks of that size
LongText == [k \in 1 .. 2 * (PreviewChars + 1) |-> IF k <= PreviewChars + 1 THEN "a" ELSE "b"]
LongBudget == [max |-> 0, tmpl |-> DefaultMaxInputChars - ProcessingBuffer - 2 * (PreviewChars + 1)]

\* an item lacking a key
Malformed == [chunk_index |-> 0, score |-> 0, keys |-> {"score"}]

\* the items an answer may hold about n chunks: any index from 0 to n (n is
\* out of range), any score, or an item lacking a key
Items(n) == {PriorityRecord(x, sc) : x \in 0 .. n, sc \in Scores} \cup {Malformed}

\* the answers holding one record for each of n chunks, in any order and
\* with any scores
CompleteAnswers(n) ==
    {[k \in 1 .. n |-> PriorityRecord(perm[k], sc[k])] :
        perm \in {f \in [1 .. n -> 0 .. n - 1] : \A j, k \in 1 .. n : j # k => f[j] # f[k]},
        sc \in [1 .. n -> Scores]}

ScoringResponses(n) ==
    {[kind |-> k, items |-> <<>>] : k \in {"reject", "unparseable", "notArray"}}
    \cup {[kind |-> "array", items |-> it] : it \in Texts(Items(n), MaxRecords)}
    \cup {[kind |-> "array", items |-> it] : it \in CompleteAnswers(n)}

InitSelect ==
    /\ IdleSelection /\ IdleBatch /\ IdlePipe /\ IdleApp
    /\ pc = "start"
    /\ \/ /\ \E n \in 0 .. MaxMainLen : mainContent = SubSeq(Sample, 1, n)
          /\ \E b \in Budgets : maxInputCharsOpt = b.max /\ templateLength = b.tmpl
       \/ /\ mainContent = LongText
          /\ maxInputCharsOpt = LongBudget.max /\ templateLength = LongBudget.tmpl
    /\ \E n \in 0 .. MaxAuxLen : auxiliaryContext = SubSeq(Sample, 1, n)
    /\ limits \in [doc : -1 .. MaxMainLen, aux : -1 .. MaxAuxLen]
    /\ synthTemplateLength = 0
    /\ finalJoinStrategy = "string-concat"
    /\ chunkSize = 1

NextSelect ==
    \/ processInChunks
    \/ pc = "prioMain" /\ \E resp \in ScoringResponses(Len(mainContentChunks)) :
                             MainPrioritiesSettle(resp)
    \/ SelectMain
    \/ pc = "prioAux" /\ \E resp \in ScoringResponses(Len(auxContentChunks)) :
                            AuxPrioritiesSettle(resp)
    \/ SelectAux

SpecSelect == InitSelect /\ [][NextSelect]_vars

(***************************************************************************)
(* Claims about the prioritization, checked under SpecSelect.              *)
(***************************************************************************)
\* C8: when the scoring call rejects or answers with something that is not an
\* array of items having chunk_index and score, every chunk gets the score 5,
\* the selection is the first `limit` chunks in their original order, and
\* processInChunks goes on (to the next scoring call or to the dispatch)
\* without an error.
C8_ScoringFailureFallsBack ==
    /\ [][pc = "selectMain" /\ scoringOutcome # "valid"
            => /\ limits.doc \in 1 .. Len(mainContentChunks) - 1
               /\ Len(priorities) = Len(mainContentChunks)
               /\ \A k \in 1 .. Len(priorities) :
                    priorities[k].chunk_index = k - 1 /\ priorities[k].score = 5
               /\ selectedMainChunks' = SubSeq(mainContentChunks, 1, limits.doc)
               /\ pc' \in {"prioAux", "processing"}
               /\ error' = NoError]_vars
    /\ [][pc = "selectAux" /\ scoringOutcome # "valid"
            => /\ limits.aux \in 1 .. Len(auxContentChunks) - 1
               /\ Len(priorities) = Len(auxContentChunks)
               /\ \A k \in 1 .. Len(priorities) :
                    priorities[k].chunk_index = k - 1 /\ priorities[k].score = 5
               /\ selectedAuxChunks' = SubSeq(auxContentChunks, 1, limits.aux)
               /\ pc' = "processing"
               /\ error' = NoError]_vars

\* 3 main chunks, limit 2, the scoring call failed: the first 2 chunks are dispatched
C8_Witness ==
    /\ pc = "processing" /\ scoringCalls = [doc |-> 1, aux |-> 0]
    /\ scoringOutcome \in {"reject", "unparseable", "notArray", "badItems"}
    /\ Len(mainContentChunks) = 3 /\ limits.doc = 2
    /\ selectedMainChunks = SubSeq(mainContentChunks, 1, 2)

MainSelectionDone == pc \in {"prioAux", "selectAux", "processing"}

\* C9: a list whose limit is <= 0 or >= its number of chunks is used unchanged
\* and in order, and no scoring call is issued for it.
C9_NoLimitNoScoring ==
    /\ MainSelectionDone /\ (limits.doc <= 0 \/ limits.doc >= Len(mainContentChunks))
         => selectedMainChunks = mainContentChunks /\ scoringCalls.doc = 0
    /\ pc = "processing" /\ (limits.aux <= 0 \/ limits.aux >= Len(auxContentChunks))
         => selectedAuxChunks = auxContentChunks /\ scoringCalls.aux = 0

\* 3 main chunks with limit 3 and 2 auxiliary chunks with limit -1, dispatched
C9_Witness ==
    /\ pc = "processing"
    /\ Len(mainContentChunks) = 3 /\ limits.doc = 3
    /\ Len(auxContentChunks) = 2 /\ limits.aux = -1
    /\ Len(promiseFactories) = 6 /\ scoringCalls = [doc |-> 0, aux |-> 0]

\* the list `priorities` has exactly one record for each index of `chunks`
OneRecordPerChunk(chunks) ==
    /\ Len(priorities) = Len(chunks)
    /\ \A x \in 0 .. Len(chunks) - 1 :
         Cardinality({k \in 1 .. Len(priorities) : priorities[k].chunk_index = x}) = 1

\* C10: the priority list used for a selection has exactly one record for each
\* chunk index 0..n-1 (a chunk the answer has no record for getting one with
\* the score 5).
C10_OneRecordPerChunk ==
    /\ pc = "selectMain" => OneRecordPerChunk(mainContentChunks)
    /\ pc = "selectAux" => OneRecordPerChunk(auxContentChunks)

\* the score the answer gives to chunk x (the answer has one record for it)
ScoreOf(x) == priorities[CHOOSE k \in 1 .. Len(priorities) : priorities[k].chunk_index = x].score

\* sel is the `limit` chunks of `chunks` with the highest scores in
\* `priorities`, by descending score, each the whole chunk
TopByScore(chunks, limit, sel) ==
    /\ Len(sel) = limit
    /\ \E idx \in [1 .. limit -> 0 .. Len(chunks) - 1] :
         /\ \A j, k \in 1 .. limit : j < k => idx[j] # idx[k] /\ ScoreOf(idx[j]) >= ScoreOf(idx[k])
         /\ \A x \in (0 .. Len(chunks) - 1) \ {idx[k] : k \in 1 .. limit} :
              \A k \in 1 .. limit : ScoreOf(x) <= ScoreOf(idx[k])
         /\ \A k \in 1 .. limit :
              /\ sel[k] = chunks[idx[k] + 1]
              /\ Len(chunks[idx[k] + 1]) > PreviewChars => sel[k] # Preview(chunks[idx[k] + 1])

\* C11: when 0 < limit < |chunks| and the scoring call answers with one valid
\* record for every chunk, exactly one scoring call was issued for the list and
\* the selection is the `limit` chunks with the highest scores, by descending
\* score, each the original chunk and not its 500-character preview.
C11_TopLimitByScore ==
    /\ [][pc = "selectMain" /\ scoringOutcome = "valid" /\ OneRecordPerChunk(mainContentChunks)
            => /\ limits.doc \in 1 .. Len(mainContentChunks) - 1
               /\ scoringCalls.doc = 1 /\ scoringCalls'.doc = 1
               /\ TopByScore(mainContentChunks, limits.doc, selectedMainChunks')]_vars
    /\ [][pc = "selectAux" /\ scoringOutcome = "valid" /\ OneRecordPerChunk(auxContentChunks)
            => /\ limits.aux \in 1 .. Len(auxContentChunks) - 1
               /\ scoringCalls.aux = 1 /\ scoringCalls'.aux = 1
               /\ TopByScore(auxContentChunks, limits.aux, selectedAuxChunks')]_vars

\* 3 main chunks, limit 2, the answer scoring the first chunk lowest: the
\* second and third chunks are dispatched
C11_Witness ==
    /\ pc = "processing" /\ scoringCalls = [doc |-> 1, aux |-> 0] /\ scoringOutcome = "valid"
    /\ Len(mainContentChunks) = 3 /\ limits.doc = 2
    /\ selectedMainChunks = SubSeq(mainContentChunks, 2, 3)

\* a chunk longer than the preview was selected whole
C11_LongChunkSelected ==
    /\ pc = "processing" /\ scoringOutcome = "valid" /\ limits.doc = 1
    /\ Len(mainContentChunks) = 2
    /\ selectedMainChunks = <<mainContentChunks[2]>>
    /\ Len(selectedMainChunks[1]) > PreviewChars

\* C13: an empty text is partitioned into exactly one chunk, the empty string,
\* main and auxiliary alike; with no limits set at least one unit is
\* dispatched, and an empty main content with an empty auxiliary context give
\* exactly the one unit ("", "").
C13_EmptyTextOneChunk ==
    /\ pc # "start"
         => /\ mainContent = <<>> => mainContentChunks = << <<>> >>
            /\ auxiliaryContext = <<>> => auxContentChunks = << <<>> >>
    /\ pc = "processing" /\ limits.doc <= 0 /\ limits.aux <= 0
         => Len(promiseFactories) >= 1
    /\ pc = "processing" /\ mainContent = <<>> /\ auxiliaryContext = <<>>
         => promiseFactories = << [mainChunk |-> <<>>, auxChunk |-> <<>>] >>

\* empty main content and empty auxiliary context, dispatched as one unit
C13_Witness ==
    /\ pc = "processing" /\ mainContent = <<>> /\ auxiliaryContext = <<>>
    /\ limits = [doc |-> 0, aux |-> 0]
    /\ Len(promiseFactories) = 1 /\ total = 1

\* the processing events emitted so far
IsProcessingEvent(e) == e.stage = "processing"

ProcessingEvents == SelectSeq(progress, IsProcessingEvent)

(***************************************************************************)
(* Spec: one invocation of processAndSynthesize, with the user free to     *)
(* press Stop whenever the invocation is suspended.                        *)
(***************************************************************************)
\* what a processing call may answer with: nothing, blanks, text
ProcessingResponses == {<<>>, <<" ">>, <<"x">>}

\* what a synthesis call may answer with
SynthesisResponses == {<<"s">>, <<"t", "u">>}

\* options.maxInputChars and the template length: 1 and 2001 characters a chunk
PipelineBudgets == {[max |-> 1000, tmpl |-> 798], [max |-> 0, tmpl |-> 798]}

\* with maxInputChars 1000 these leave 9, 8, 0 and -1 characters for synthesis
SynthTemplateLengths == {491, 492, 500, 501}

Init ==
    /\ IdleSelection /\ IdleBatch /\ IdlePipe /\ IdleApp
    /\ pc = "start"
    /\ \E n \in 0 .. MaxPipeLen : mainContent = SubSeq(Sample, 1, n)
    /\ \E n \in 0 .. MaxPipeLen : auxiliaryContext = SubSeq(Sample, 1, n)
    /\ limits \in [doc : {0, 1}, aux : {0, 1}]
    /\ \E b \in PipelineBudgets : maxInputCharsOpt = b.max /\ templateLength = b.tmpl
    /\ synthTemplateLength \in SynthTemplateLengths
    /\ finalJoinStrategy = "string-concat"
    /\ chunkSize = 1

Next ==
    \/ processInChunks
    \/ pc = "prioMain" /\ \E resp \in ScoringResponses(Len(mainContentChunks)) :
                             MainPrioritiesSettle(resp)
    \/ SelectMain
    \/ pc = "prioAux" /\ \E resp \in ScoringResponses(Len(auxContentChunks)) :
                            AuxPrioritiesSettle(resp)
    \/ SelectAux
    \/ BatchLoop
    \/ \E u \in inflight :
         \E v \in (IF stage = "synthesis" THEN SynthesisResponses ELSE ProcessingResponses) :
            UnitFulfil(u, v)
    \/ \E u \in inflight : UnitReject(u)
    \/ Propagate
    \/ AfterProcessing
    \/ \E v \in SynthesisResponses : SynthSingleFulfil(v)
    \/ SynthSingleReject
    \/ Rechunk
    \/ AfterSynthesis
    \/ Cancel

Spec == Init /\ [][Next]_vars

(***************************************************************************)
(* Claims about processAndSynthesize, checked under Spec.                  *)
(***************************************************************************)
\* C1: an invocation during which the cancellation flag became true never
\* resolves with a result string.
C1_CancelledNeverResolves == cancelledAt # "never" => pc # "resolved"

IsSynthesisEvent(e) == e.stage = "synthesis"

SynthesisEvents == SelectSeq(progress, IsSynthesisEvent)

\* the relation C7 states between the length L of the joined partial results,
\* the available characters A and the synthesis calls, once the synthesis step
\* has been entered
C7_Counts ==
    LET L == Len(combinedPartialResults)
        A == AvailableCharsForSynth
    IN /\ L <= A
            => /\ synthCalls = 1
               /\ pc = "resolved"
                    => /\ result = fulfilled[0]
                       /\ SynthesisEvents = <<[completed |-> 0, total |-> 1, stage |-> "synthesis"],
                                              [completed |-> 1, total |-> 1, stage |-> "synthesis"]>>
       /\ L > A /\ pc \in {"resolved", "exhausted"}
            => /\ synthCalls >= 2
               /\ synthCalls * A >= L /\ (synthCalls - 1) * A < L
               /\ synthCalls = Len(synthesisChunks)
               /\ Flatten(synthesisChunks) = combinedPartialResults
               /\ SynthesisEvents = [k \in 1 .. synthCalls + 1 |->
                                       [completed |-> k - 1, total |-> synthCalls,
                                        stage |-> "synthesis"]]

\* C7: joined partial results of length L <= A take exactly one synthesis call,
\* whose output is returned, with the events (0,1) and (1,1); of length L > A
\* they take ceil(L/A) >= 2 calls, one for each A-sized chunk, and no more,
\* reported as events of the synthesis stage.
C7_SynthesisCallCount == stage = "synthesis" => C7_Counts

\* the same with at least one character available for synthesis: this holds
C7_HoldsWithPositiveBudget ==
    stage = "synthesis" /\ AvailableCharsForSynth >= 1 => C7_Counts

\* the loop of lines 228-230 is cut only where it cannot end
ExhaustedOnlyWithoutBudget == pc = "exhausted" => AvailableCharsForSynth <= 0

\* C12: the processing stage builds |selectedMain| * |selectedAux| units, the
\* k-th (0-based) pairing main chunk floor(k / |selectedAux|) with auxiliary
\* chunk k mod |selectedAux|, and that product is the total of every
\* processing progress event.
C12_CrossProduct ==
    LET M == Len(selectedMainChunks)
        N == Len(selectedAuxChunks)
    IN /\ pc = "processing"
            => /\ Len(promiseFactories) = M * N
               /\ total = M * N
               /\ \A k \in 0 .. M * N - 1 :
                    promiseFactories[k + 1] =
                        [mainChunk |-> selectedMainChunks[(k \div N) + 1],
                         auxChunk |-> selectedAuxChunks[(k % N) + 1]]
       /\ \A k \in 1 .. Len(ProcessingEvents) : ProcessingEvents[k].total = M * N

\* 2 main chunks by 2 auxiliary chunks, all 4 units completed
C12_Witness ==
    /\ pc = "processing" /\ bpc = "resolved"
    /\ Len(selectedMainChunks) = 2 /\ Len(selectedAuxChunks) = 2
    /\ Len(results) = 4 /\ Len(ProcessingEvents) = 5

\* C17: the available-character value derived from the budget is at least 1
\* wherever it is used as a chunk size: for the main content, for the
\* auxiliary context and for the re-chunking of the joined partial results.
C17_ChunkSizeClamped ==
    /\ pc # "start" => MainChunkSize >= 1 /\ AuxChunkSize >= 1
    /\ pc \in {"rechunk", "synthesis", "exhausted"} => AvailableCharsForSynth >= 1

\* the events of a stage: completed never decreases, total is the same in all
\* of them, and 0 <= completed <= total
StageEventsOrdered(events) ==
    /\ \A k \in 1 .. Len(events) - 1 : events[k].completed <= events[k + 1].completed
    /\ \A k \in 1 .. Len(events) :
         /\ events[k].total = events[1].total
         /\ 0 <= events[k].completed /\ events[k].completed <= events[k].total

\* the events of a stage end with completed = total
StageEventsComplete(events) ==
    events # <<>> /\ events[Len(events)].completed = events[Len(events)].total

\* processInChunks has returned
ProcessingFinished ==
    \/ pc = "processing" /\ bpc = "resolved"
    \/ pc \in {"synthSingle", "rechunk", "synthesis", "exhausted", "resolved"}
    \/ pc = "rejected" /\ (stage = "synthesis" \/ bpc = "resolved")

\* the synthesis calls have all returned
SynthesisFinished ==
    \/ pc = "synthesis" /\ bpc = "resolved"
    \/ pc = "resolved" /\ stage = "synthesis"

\* C18: within each stage the progress events have a non-decreasing
\* `completed`, one `total` and 0 <= completed <= total; a stage that finishes
\* without error ends with completed = total; the total of the synthesis stage
\* is 1 (single call) or the number of synthesis chunks.
C18_ProgressWithinStage ==
    /\ StageEventsOrdered(ProcessingEvents)
    /\ StageEventsOrdered(SynthesisEvents)
    /\ ProcessingFinished => StageEventsComplete(ProcessingEvents)
    /\ SynthesisFinished => StageEventsComplete(SynthesisEvents)
    /\ \A k \in 1 .. Len(SynthesisEvents) :
         SynthesisEvents[k].total = IF synthesisChunks = <<>> THEN 1 ELSE Len(synthesisChunks)

\* 4 processing calls, then a synthesis in 3 chunks, to the end
C18_Witness ==
    /\ pc = "resolved" /\ Len(ProcessingEvents) = 5 /\ Len(SynthesisEvents) = 4
    /\ SynthesisEvents[4] = [completed |-> 3, total |-> 3, stage |-> "synthesis"]

\* every string of rs is empty or made of blanks, tabs and newlines only
AllBlank(rs) == \A k \in 1 .. Len(rs) : \A j \in 1 .. Len(rs[k]) : rs[k][j] \in {" ", "\t", "\n"}

C20_CancelledVsUpstream ==
    /\ [](error.kind = CancelledError.kind => isCancelled)
    /\ [](pc = "rejected" => error # NoError)
    /\ [](error.kind = "upstream" => pc # "resolved")
    /\ [][rejectedUnits' # rejectedUnits
            => \E u \in rejectedUnits' \ rejectedUnits :
                  bpc' = "rejected" /\ error' = [kind |-> "upstream", unit |-> u]]_vars
    /\ [][pc = "synthSingle" /\ pc' = "rejected"
            => error' = [kind |-> "upstream", unit |-> 0]]_vars
    /\ [][error.kind = "upstream" => error' = error /\ pc' = "rejected"]_vars

\* a synthesis call rejected with the flag unset: the invocation rejected with
\* the error of that call
C20_Witness ==
    /\ pc = "rejected" /\ stage = "synthesis" /\ ~isCancelled
    /\ error = [kind |-> "upstream", unit |-> 2] /\ 2 \in rejectedUnits

\* C24: once the flag was set during the invocation, no model call of any
\* kind is started: no relevance-scoring call, no processing call and no
\* synthesis call.
C24_NoNewCallAfterCancel ==
    [][isCancelled /\ cancelledAt # "start"
         => /\ scoringCalls' = scoringCalls
            /\ invoked' \subseteq invoked
            /\ synthCalls' = synthCalls]_vars

\* the part of C24 that holds: no processing and no synthesis call is started
\* once the flag is set
NoStageCallAfterCancel ==
    [][isCancelled => invoked' \subseteq invoked /\ synthCalls' = synthCalls]_vars

\* C25: the loop that re-chunks the joined partial results finishes, with
\* finitely many chunks: every chunk it pushes moves its index forward by at
\* least one character, so it is never found short of the end of the text
\* with as many chunks pushed as the text has characters; the invocation then
\* goes on to resolve or reject.
C25_RechunkLoopFinishes ==
    /\ pc = "rechunk" => i >= Len(synthesisChunks)
    /\ pc # "exhausted"

\* the same with at least one character available for synthesis: this holds
RechunkLoopFinishesWithPositiveBudget ==
    AvailableCharsForSynth >= 1
    => /\ pc = "rechunk" => i >= Len(synthesisChunks)
       /\ pc # "exhausted"

\* the synthesis half of C26: the input of every synthesis call, the fixed
\* part and the text, is within maxInputChars; this holds
SynthesisCallsWithinCeiling ==
    /\ pc = "synthSingle" => synthTemplateLength + Len(combinedPartialResults) <= MaxInputChars
    /\ pc = "synthesis"
         => \A k \in 1 .. Len(synthesisChunks) :
               synthTemplateLength + Len(synthesisChunks[k]) <= MaxInputChars

(***************************************************************************)
(* SpecMerge: one invocation of processAndSynthesize whose single          *)
(* processing call answers with two or three characters, synthesized in    *)
(* one call or in two or three chunks, the synthesis calls answering with  *)
(* JSON texts, with either join strategy.                                  *)
(***************************************************************************)
MergeProcessingResponses == {<<"x", "y">>, <<"x", "y", "z">>}

\* [1], [2,3], [], a fenced [4], the number 5, a text that is no JSON, a blank
JsonResponses ==
    { <<"[", "1", "]">>,
      <<"[", "2", ",", "3", "]">>,
      <<"[", "]">>,
      FenceOpen \o <<"\n", "[", "4", "]", "\n">> \o FenceClose,
      <<"5">>,
      <<"x">>,
      <<" ">> }

\* with maxInputChars 1000 these leave 1 and 2 characters for synthesis
MergeSynthTemplateLengths == {499, 498}

InitMerge ==
    /\ IdleSelection /\ IdleBatch /\ IdlePipe /\ IdleApp
    /\ pc = "start"
    /\ mainContent = <<>> /\ auxiliaryContext = <<>>
    /\ limits = [doc |-> 0, aux |-> 0]
    /\ maxInputCharsOpt = 1000 /\ templateLength = 798
    /\ synthTemplateLength \in MergeSynthTemplateLengths
    /\ finalJoinStrategy \in {"string-concat", "json-array"}
    /\ chunkSize = 1

NextMerge ==
    \/ processInChunks
    \/ BatchLoop
    \/ \E u \in inflight :
         \E v \in (IF stage = "synthesis" THEN JsonResponses ELSE MergeProcessingResponses) :
            UnitFulfil(u, v)
    \/ \E u \in inflight : UnitReject(u)
    \/ Propagate
    \/ AfterProcessing
    \/ \E v \in JsonResponses : SynthSingleFulfil(v)
    \/ SynthSingleReject
    \/ Rechunk
    \/ AfterSynthesis
    \/ Cancel

SpecMerge == InitMerge /\ [][NextMerge]_vars

\* the invocation resolved after a chunked synthesis
ChunkedSynthesisResolved == pc = "resolved" /\ synthesisChunks # <<>>

\* the synthesized parts are the answers to the synthesis chunks, in chunk order
PartsInChunkOrder ==
    /\ Len(results) = Len(synthesisChunks)
    /\ \A k \in 1 .. Len(results) : results[k] = fulfilled[k]

\* C14 as stated: with 'string-concat', a chunked synthesis resolves with the
\* synthesized parts in chunk order joined by the separator of the partial
\* results, "\n\n---\n\n".
C14_JoinedWithRuleSeparator ==
    ChunkedSynthesisResolved /\ finalJoinStrategy = "string-concat"
    => PartsInChunkOrder /\ result = Join(results, Separator)

\* C14, amended: with 'string-concat', a chunked synthesis resolves with the
\* synthesized parts in chunk order joined by a blank line, "\n\n".
C14_JoinedWithBlankLine ==
    ChunkedSynthesisResolved /\ finalJoinStrategy = "string-concat"
    => PartsInChunkOrder /\ result = Join(results, <<"\n", "\n">>)

\* three synthesized parts joined
C14_Witness ==
    /\ ChunkedSynthesisResolved /\ finalJoinStrategy = "string-concat"
    /\ Len(results) = 3 /\ results[1] # results[2]
    /\ result = results[1] \o <<"\n", "\n">> \o results[2] \o <<"\n", "\n">> \o results[3]

\* every synthesized part is a JSON array once its fence is stripped
AllPartsAreArrays ==
    \A k \in 1 .. Len(results) :
        JsonParse(CleanPart(results[k])).ok /\ JsonParse(CleanPart(results[k])).isArray

\* the elements of the parts, in part order and within a part in their order
ElementsOfParts == Flatten([k \in 1 .. Len(results) |-> JsonParse(CleanPart(results[k])).elems])

\* C15: with 'json-array', when every part of a chunked synthesis is a JSON
\* array (after stripping a code fence), the result is one JSON array whose
\* elements are those of the parts in part order and, within a part, in their
\* original order.
C15_ArraysMerged ==
    ChunkedSynthesisResolved /\ finalJoinStrategy = "json-array" /\ AllPartsAreArrays
    => /\ JsonParse(result).ok /\ JsonParse(result).isArray
       /\ JsonParse(result).elems = ElementsOfParts

\* [2,3], the fenced [4] and [1] merged into [2,3,4,1]
C15_Witness ==
    /\ ChunkedSynthesisResolved /\ finalJoinStrategy = "json-array"
    /\ results = << <<"[", "2", ",", "3", "]">>,
                    FenceOpen \o <<"\n", "[", "4", "]", "\n">> \o FenceClose,
                    <<"[", "1", "]">> >>
    /\ JsonParse(result).elems = <<"2", "3", "4", "1">>

\* JSON.parse throws on some part of the chunked synthesis
SomePartUnparseable ==
    \E k \in 1 .. Len(results) :
        CleanPart(results[k]) # <<>> /\ ~JsonParse(CleanPart(results[k])).ok

\* C16: with 'json-array', if a part fails to parse as JSON the invocation
\* does not reject: it resolves with the raw parts joined as 'string-concat'
\* joins them, and the elements parsed before the failure are not returned on
\* their own.
C16_MergeFallsBackToConcat ==
    /\ [](ChunkedSynthesisResolved /\ finalJoinStrategy = "json-array" /\ SomePartUnparseable
            => /\ error = NoError
               /\ result = FinalJoin(results, "string-concat")
               /\ result = Join(results, <<"\n", "\n">>)
               /\ result # JsonStringify(MergeParts(results, <<>>).elems))
    /\ [][pc = "synthesis" /\ bpc = "resolved" /\ SomePartUnparseable
            => pc' = "resolved"]_vars

\* [1] parsed, then a part that is no JSON: the two raw parts joined
C16_Witness ==
    /\ ChunkedSynthesisResolved /\ finalJoinStrategy = "json-array"
    /\ results = << <<"[", "1", "]">>, <<"x">> >>
    /\ result = <<"[", "1", "]", "\n", "\n", "x">>

\* C26: the input of every processing call, system prompt and fixed template
\* and main chunk and auxiliary chunk, and of every synthesis call, system
\* prompt and fixed template and text, is within maxInputChars.
C26_CallsWithinCeiling ==
    /\ pc = "processing"
         => \A k \in 1 .. Len(promiseFactories) :
               templateLength + Len(promiseFactories[k].mainChunk)
                   + Len(promiseFactories[k].auxChunk) <= MaxInputChars
    /\ SynthesisCallsWithinCeiling

\* the same for a template that leaves two characters or more: this holds
CallsWithinCeilingWithRoom ==
    pc = "processing" /\ templateLength + 2 <= MaxInputChars
    => \A k \in 1 .. Len(promiseFactories) :
          templateLength + Len(promiseFactories[k].mainChunk)
              + Len(promiseFactories[k].auxChunk) <= MaxInputChars

\* sel holds only chunks of `chunks`, none of them twice
SelectedFromPartition(chunks, sel) ==
    /\ \A k \in 1 .. Len(sel) : sel[k] \in Range(chunks)
    /\ \A j, k \in 1 .. Len(sel) : j < k => sel[j] # sel[k]

\* C27: whatever the scoring call answers, every unit dispatched pairs a main
\* chunk and an auxiliary chunk that the partitioning produced (never an
\* undefined entry), and no chunk is selected twice in either list.
C27_UnitsFromPartition ==
    pc = "processing"
    => /\ SelectedFromPartition(mainContentChunks, selectedMainChunks)
       /\ SelectedFromPartition(auxContentChunks, selectedAuxChunks)
       /\ \A k \in 1 .. Len(promiseFactories) :
            /\ promiseFactories[k].mainChunk \in Range(mainContentChunks)
            /\ promiseFactories[k].auxChunk \in Range(auxContentChunks)

\* the same when the answer is unusable or has one record for every chunk:
\* this holds
UnitsFromPartitionWithCompleteAnswer ==
    /\ [][pc = "selectMain" /\ (scoringOutcome # "valid" \/ OneRecordPerChunk(mainContentChunks))
            => SelectedFromPartition(mainContentChunks, selectedMainChunks')]_vars
    /\ [][pc = "selectAux" /\ (scoringOutcome # "valid" \/ OneRecordPerChunk(auxContentChunks))
            => SelectedFromPartition(auxContentChunks, selectedAuxChunks')]_vars

(***************************************************************************)
(* PollinationsService.estimateApiCalls (src/unnamed/part_006, lines       *)
(* 114-151): the number of calls announced to the user before a stage.     *)
(***************************************************************************)
EstimatedTemplateLength == 500

\* _calculateChunkCounts (lines 128-151)
CalculateChunkCounts(maxInputChars, main, aux) ==
    LET maxChars == IF maxInputChars = 0 THEN DefaultMaxInputChars ELSE maxInputChars
        availableChars == maxChars - EstimatedTemplateLength
        mainSize == Max(1, availableChars \div 2)
        auxSize == Max(1, availableChars \div 2)
    IN IF availableChars <= 0 THEN [mainCount |-> 1, auxCount |-> 1]
       ELSE [mainCount |-> IF Len(main) > 0 THEN CeilDiv(Len(main), mainSize) ELSE 1,
             auxCount |-> IF Len(aux) > 0 THEN CeilDiv(Len(aux), auxSize) ELSE 1]

\* estimateApiCalls (lines 114-126)
EstimateApiCalls(maxInputChars, main, aux) ==
    LET counts == CalculateChunkCounts(maxInputChars, main, aux)
    IN [mainCount |-> counts.mainCount, auxCount |-> counts.auxCount,
        total |-> counts.mainCount * counts.auxCount]

Estimate == EstimateApiCalls(maxInputCharsOpt, mainContent, auxiliaryContext)

\* C21: with no limits set, estimateApiCalls returns the numbers of main and
\* auxiliary chunks that processInChunks makes of the same inputs, and as
\* total the total of the processing progress events.
C21_EstimateMatchesDispatch ==
    pc = "processing" /\ limits.doc <= 0 /\ limits.aux <= 0
    => /\ Estimate.mainCount = Len(mainContentChunks)
       /\ Estimate.auxCount = Len(auxContentChunks)
       /\ Estimate.total = Len(promiseFactories)
       /\ \A k \in 1 .. Len(ProcessingEvents) : ProcessingEvents[k].total = Estimate.total

(***************************************************************************)
(* SpecEndToEnd: processInChunks from its call to the dispatch of the      *)
(* units, for a main content of 12,000 characters, an auxiliary context of *)
(* 9, maxInputChars 5000 (given or by default), a prompt template and      *)
(* system prompt of 200 characters together, and a main limit of 0 or 3.   *)
(***************************************************************************)
EndToEndMain == [k \in 1 .. 12000 |-> Sample[((k - 1) \div 2300) + 1]]

EndToEndAux == [k \in 1 .. 9 |-> "z"]

\* the answers of the scoring call about n chunks: failures, arrays of up to
\* MaxRecords items of any kind, and arrays scoring every chunk in order
EndToEndResponses(n) ==
    {[kind |-> k, items |-> <<>>] : k \in {"reject", "unparseable", "notArray"}}
    \cup {[kind |-> "array", items |-> it] : it \in Texts(Items(n), MaxRecords)}
    \cup {[kind |-> "array", items |-> [k \in 1 .. n |-> PriorityRecord(k - 1, sc[k])]] :
             sc \in [1 .. n -> Scores]}

InitEndToEnd ==
    /\ IdleSelection /\ IdleBatch /\ IdlePipe /\ IdleApp
    /\ pc = "start"
    /\ mainContent = EndToEndMain
    /\ auxiliaryContext = EndToEndAux
    /\ limits \in {[doc |-> 0, aux |-> 0], [doc |-> 3, aux |-> 0]}
    /\ maxInputCharsOpt \in {0, 5000}
    /\ templateLength = 200
    /\ synthTemplateLength = 0
    /\ finalJoinStrategy = "string-concat"
    /\ chunkSize = 1

NextEndToEnd ==
    \/ processInChunks
    \/ pc = "prioMain" /\ \E resp \in EndToEndResponses(Len(mainContentChunks)) :
                             MainPrioritiesSettle(resp)
    \/ SelectMain

SpecEndToEnd == InitEndToEnd /\ [][NextEndToEnd]_vars

\* C22: 12,000 characters of main content and 9 of auxiliary context, with
\* maxChars 5000 and a template overhead of 200, make 6 main chunks and 1
\* auxiliary chunk, hence 6 units; with the main limit 3 exactly 3 units are
\* dispatched, whatever the scoring call answers.
C22_EndToEnd ==
    /\ pc # "start" => Len(mainContentChunks) = 6 /\ Len(auxContentChunks) = 1
    /\ pc = "processing" /\ limits.doc = 0 => Len(promiseFactories) = 6 /\ total = 6
    /\ pc = "processing" /\ limits.doc = 3 => Len(promiseFactories) = 3 /\ total = 3

\* the part of C22 that holds: the chunk counts, the 6 units without a limit,
\* and the 3 units when the answer is unusable or scores every chunk
EndToEndWithUsableAnswer ==
    /\ pc # "start" => Len(mainContentChunks) = 6 /\ Len(auxContentChunks) = 1
    /\ pc = "processing" /\ limits.doc = 0 => Len(promiseFactories) = 6 /\ total = 6
    /\ pc = "selectMain" /\ (scoringOutcome # "valid" \/ Len(priorities) >= 3)
         => Len(SelectChunks(mainContentChunks, SortByScore(priorities), limits.doc)) = 3

(***************************************************************************)
(* More claims about the JSON merge, checked under SpecMerge.              *)
(***************************************************************************)
\* every part with any text in it is a JSON array once its fence is stripped
AllTextPartsAreArrays ==
    \A k \in 1 .. Len(results) :
        \/ CleanPart(results[k]) = <<>>
        \/ JsonParse(CleanPart(results[k])).ok /\ JsonParse(CleanPart(results[k])).isArray

\* C28: with 'json-array' the result of a chunked synthesis accounts for every
\* part: either every part (a blank one apart) gave all its array elements to
\* the merged array, or the result is the raw parts joined; no part, such as
\* one that is JSON but not an array, is left out.
C28_EveryPartAccountedFor ==
    ChunkedSynthesisResolved /\ finalJoinStrategy = "json-array"
    => \/ /\ AllTextPartsAreArrays
          /\ JsonParse(result).ok /\ JsonParse(result).elems = ElementsOfParts
       \/ result = Join(results, <<"\n", "\n">>)

(***************************************************************************)
(* SpecApp: the component of src/App.tsx that drives a run: handleSubmit,  *)
(* executePollinationsFlow with its three stages and their                 *)
(* resource-control dialogs, and handleStop.  The calls of the language    *)
(* model service are awaits that fulfil or reject; an action is one run of *)
(* a handler or of a continuation up to the next await, or up to the point *)
(* where nothing of the run is left to continue.                           *)
(*                                                                         *)
(* flow is "idle" before the first run, "planning", "executing" or         *)
(* "synthesizing" while the service call of that stage is awaited,         *)
(* "planDialog", "taskDialog" or "synthDialog" while the run waits for the *)
(* dialog of that stage, and "ended" when no continuation of the run is    *)
(* left.                                                                   *)
(***************************************************************************)
MaxTasks == 2

Providers == {"gemini", "openrouter", "pollinations"}

\* the estimate above which a stage asks before it runs (`total > 5`)
DialogThreshold == 5

\* what estimateApiCalls(...).total may be for a stage: at and above the threshold
EstimateTotals == {DialogThreshold, DialogThreshold + 1}

\* err.message of a rejected service call
StoppedMessage == "Process stopped by user."
UpstreamMessage == "upstream"

\* t.status === IN_PROGRESS ? FAILED : t.status, for every task
FailInProgress(ts) ==
    [k \in 1 .. Len(ts) |-> IF ts[k] = "IN_PROGRESS" THEN "FAILED" ELSE ts[k]]

\* setTasks(... t.id === task.id ? {...t, status} : t), for the task of 0-based index k
SetStatus(ts, k, status) ==
    [j \in 1 .. Len(ts) |-> IF j = k + 1 THEN status ELSE ts[j]]

\* the variables of the pipeline that the component does not touch
pipelineVars == <<inputVars, selVars, batchVars, pc, stage, total, progress, error,
                  combinedPartialResults, synthesisChunks, synthCalls, result>>

\* handleFlowError(err), and the catch and finally blocks of handleSubmit: the
\* error is shown, tasks in progress fail, the run leaves the processing state
handleFlowError(ts, message) ==
    /\ errorMessage' = message
    /\ tasks' = FailInProgress(ts)
    /\ isProcessing' = FALSE
    /\ flow' = "ended"
    /\ taskIndex' = taskIndex

\* run(limits) of runSynthesisStage up to its await; no dialog is open when it starts
runSynthesis(ts, cancelled) ==
    /\ apiResourceControl' = "null"
    /\ IF cancelled
       THEN handleFlowError(ts, StoppedMessage)
       ELSE /\ flow' = "synthesizing"
            /\ tasks' = ts
            /\ UNCHANGED <<errorMessage, isProcessing, taskIndex>>

\* runSynthesisStage(newOutputs): ask first when the estimate is above the threshold
runSynthesisStage(ts, cancelled) ==
    \E synthesisTotal \in EstimateTotals :
        IF synthesisTotal > DialogThreshold
        THEN /\ apiResourceControl' = "synthesis"
             /\ flow' = "synthDialog"
             /\ tasks' = ts
             /\ UNCHANGED <<errorMessage, isProcessing, taskIndex>>
        ELSE runSynthesis(ts, cancelled)

\* runExecutionStage(limits) up to its await: the task is in progress
runExecutionStage(ts, k) ==
    /\ tasks' = SetStatus(ts, k, "IN_PROGRESS")
    /\ taskIndex' = k
    /\ flow' = "executing"
    /\ apiResourceControl' = "null"
    /\ UNCHANGED <<errorMessage, isProcessing>>

\* runExecutionLoop from the head of iteration k (0-based) to the next await
runExecutionLoop(ts, k, cancelled) ==
    IF k < Len(ts)
    THEN IF cancelled
         THEN handleFlowError(ts, StoppedMessage) /\ apiResourceControl' = "null"
         ELSE \E taskTotal \in EstimateTotals :
                 IF taskTotal > DialogThreshold
                 THEN /\ apiResourceControl' = "task"
                      /\ flow' = "taskDialog"
                      /\ tasks' = ts
                      /\ taskIndex' = k
                      /\ UNCHANGED <<errorMessage, isProcessing>>
                 ELSE runExecutionStage(ts, k)
    ELSE runSynthesisStage(ts, cancelled)

\* the loop and the synthesis of handleSubmit (the other providers) from the head of
\* iteration k to the next await
submitLoop(ts, k, cancelled) ==
    IF cancelled
    THEN handleFlowError(ts, StoppedMessage) /\ apiResourceControl' = "null"
    ELSE IF k < Len(ts)
         THEN runExecutionStage(ts, k)
         ELSE runSynthesis(ts, cancelled)

\* handleSubmit, with executePollinationsFlow up to its first await or dialog
handleSubmit ==
    /\ ~isProcessing
    /\ isProcessing' = TRUE
    /\ errorMessage' = "null"
    /\ tasks' = <<>>
    /\ taskIndex' = 0
    /\ finalResult' = "null"
    /\ savedHistory' = FALSE
    /\ isCancelled' = FALSE
    /\ cancelledAt' = "never"
    /\ IF provider = "pollinations"
       THEN \E planningTotal \in EstimateTotals :
               IF planningTotal > DialogThreshold
               THEN apiResourceControl' = "planning" /\ flow' = "planDialog"
               ELSE apiResourceControl' = "null" /\ flow' = "planning"
       ELSE apiResourceControl' = "null" /\ flow' = "planning"
    /\ UNCHANGED <<provider, pipelineVars>>

\* handleStop, from the Stop button: shown while isProcessing, and covered by the
\* dialog while one is open
handleStop ==
    /\ isProcessing
    /\ apiResourceControl = "null"
    /\ ~isCancelled
    /\ isCancelled' = TRUE
    /\ cancelledAt' = flow
    /\ apiResourceControl' = "null"
    /\ UNCHANGED <<provider, isProcessing, flow, tasks, taskIndex, errorMessage,
                   finalResult, savedHistory, pipelineVars>>

\* onConfirm of the dialog that is open
onConfirm ==
    /\ apiResourceControl # "null"
    /\ apiResourceControl' = "null"
    /\ \/ /\ apiResourceControl = "planning"
          /\ flow' = "planning"
          /\ UNCHANGED <<tasks, taskIndex, errorMessage, isProcessing>>
       \/ /\ apiResourceControl = "task"
          /\ runExecutionStage(tasks, taskIndex)
       \/ /\ apiResourceControl = "synthesis"
          /\ runSynthesis(tasks, isCancelled)
    /\ UNCHANGED <<provider, finalResult, savedHistory, isCancelled, cancelledAt,
                   pipelineVars>>

\* onCancel of the planning dialog: handleStop() and setIsProcessing(false)
onCancelPlanning ==
    /\ apiResourceControl = "planning"
    /\ apiResourceControl' = "null"
    /\ isCancelled' = TRUE
    /\ cancelledAt' = flow
    /\ isProcessing' = FALSE
    /\ flow' = "ended"
    /\ UNCHANGED <<provider, tasks, taskIndex, errorMessage, finalResult, savedHistory,
                   pipelineVars>>

\* onCancel of a task's dialog: handleStop() and resolve(), and the loop goes on
\* with its next iteration
onCancelTask ==
    /\ apiResourceControl = "task"
    /\ isCancelled' = TRUE
    /\ cancelledAt' = flow
    /\ runExecutionLoop(tasks, taskIndex + 1, TRUE)
    /\ UNCHANGED <<provider, finalResult, savedHistory, pipelineVars>>

\* onCancel of the synthesis dialog: handleStop(), and nothing of the run is left
onCancelSynthesis ==
    /\ apiResourceControl = "synthesis"
    /\ apiResourceControl' = "null"
    /\ isCancelled' = TRUE
    /\ cancelledAt' = flow
    /\ flow' = "ended"
    /\ UNCHANGED <<provider, isProcessing, tasks, taskIndex, errorMessage, finalResult,
                   savedHistory, pipelineVars>>

\* breakDownGoalIntoTasks fulfilled with n tasks
PlanningFulfil(n) ==
    /\ flow = "planning"
    /\ LET generatedTasks == [k \in 1 .. n |-> "PENDING"] IN
       IF isCancelled
       THEN handleFlowError(tasks, StoppedMessage) /\ UNCHANGED apiResourceControl
       ELSE IF provider = "pollinations"
            THEN runExecutionLoop(generatedTasks, 0, isCancelled)
            ELSE submitLoop(generatedTasks, 0, isCancelled)
    /\ UNCHANGED <<provider, finalResult, savedHistory, isCancelled, cancelledAt,
                   pipelineVars>>

\* executeTask fulfilled.  executePollinationsFlow looks at the flag right after the
\* await; handleSubmit completes the task and looks at the head of the next iteration.
ExecuteFulfil ==
    /\ flow = "executing"
    /\ IF provider = "pollinations"
       THEN IF isCancelled
            THEN handleFlowError(tasks, StoppedMessage) /\ UNCHANGED apiResourceControl
            ELSE runExecutionLoop(SetStatus(tasks, taskIndex, "COMPLETED"),
                                  taskIndex + 1, isCancelled)
       ELSE submitLoop(SetStatus(tasks, taskIndex, "COMPLETED"), taskIndex + 1,
                       isCancelled)
    /\ UNCHANGED <<provider, finalResult, savedHistory, isCancelled, cancelledAt,
                   pipelineVars>>

\* synthesizeFinalResult fulfilled: setFinalResult, api.saveChatHistory,
\* setIsProcessing(false).  processAndConcatenate throws when the flag is set
\* (line 309), so with Pollinations the call fulfils only while it is not set; with
\* the other providers the flag is not handed to the service.
SynthesisFulfil ==
    /\ flow = "synthesizing"
    /\ provider = "pollinations" => ~isCancelled
    /\ finalResult' = "published"
    /\ savedHistory' = TRUE
    /\ isProcessing' = FALSE
    /\ flow' = "ended"
    /\ UNCHANGED <<provider, apiResourceControl, tasks, taskIndex, errorMessage,
                   isCancelled, cancelledAt, pipelineVars>>

\* the service call of the current stage rejected with this message
ServiceReject(message) ==
    /\ flow \in {"planning", "executing", "synthesizing"}
    /\ message = StoppedMessage => provider = "pollinations" /\ isCancelled
    /\ handleFlowError(tasks, message)
    /\ UNCHANGED <<provider, apiResourceControl, finalResult, savedHistory, isCancelled, cancelledAt,
                   pipelineVars>>

InitApp ==
    /\ IdleInputs /\ IdleSelection /\ IdleBatch /\ IdlePipe
    /\ pc = "app"
    /\ provider \in Providers
    /\ isProcessing = FALSE /\ apiResourceControl = "null"
    /\ flow = "idle" /\ tasks = <<>> /\ taskIndex = 0
    /\ errorMessage = "null" /\ finalResult = "null" /\ savedHistory = FALSE

NextApp ==
    \/ handleSubmit
    \/ handleStop
    \/ onConfirm
    \/ onCancelPlanning
    \/ onCancelTask
    \/ onCancelSynthesis
    \/ \E n \in 0 .. MaxTasks : PlanningFulfil(n)
    \/ ExecuteFulfil
    \/ SynthesisFulfil
    \/ \E message \in {StoppedMessage, UpstreamMessage} : ServiceReject(message)

SpecApp == InitApp /\ [][NextApp]_vars

(***************************************************************************)
(* Claims about the run as the component drives it, checked under SpecApp. *)
(***************************************************************************)
\* the run was cancelled from the Stop button, while a service call was awaited
StoppedByButton ==
    isCancelled /\ cancelledAt \in {"planning", "executing", "synthesizing"}

\* C29: in the Pollinations flow, once the user has cancelled (Stop, or Cancel on
\* the dialog of the planning, of a task or of the final synthesis), no
\* resource-control dialog is open any more for that run, and when nothing of the
\* run is left to continue the run has left the processing state (isProcessing is
\* false) without any further user action.
C29_CancelEndsProcessing ==
    (provider = "pollinations" /\ isCancelled) =>
        /\ apiResourceControl = "null"
        /\ flow = "ended" => ~isProcessing

\* the part of C29 that the code keeps: cancelling from the Stop button or from
\* the planning dialog ends the processing state as soon as the run has ended
StopEndsProcessing ==
    (provider = "pollinations" /\ (StoppedByButton \/ cancelledAt = "planDialog")) =>
        /\ apiResourceControl = "null"
        /\ flow = "ended" => ~isProcessing

\* C30: once the user has pressed Stop during a run, that run publishes no final
\* result: neither setFinalResult nor saveChatHistory is called for it, whatever
\* the provider and whatever stage was in progress, the final synthesis included.
C30_NoResultAfterStop ==
    StoppedByButton => finalResult = "null" /\ ~savedHistory

\* the part of C30 that the code keeps: with Pollinations, and with every provider
\* when Stop came before the final synthesis call, nothing is published
NoResultAfterEarlyStop ==
    (StoppedByButton /\ (provider = "pollinations" \/ cancelledAt # "synthesizing")) =>
        finalResult = "null" /\ ~savedHistory

====
